---- MODULE Spec2Model ----
(***************************************************************************)
(* Model of src/oauth_server.py: the OAuth callback handler of the trial   *)
(* key bot, its in-memory IP rate limiter and the Replit key-value store   *)
(* it shares with every other server process.                              *)
(*                                                                         *)
(* oauth_callback is an `async def` without a single await, so inside one  *)
(* server process a request runs to completion before the next one starts. *)
(* Requests served by different processes interleave at each operation on  *)
(* the shared store: every `in db`, `db[k]`, `db[k] = v`, `del db[k]` and   *)
(* `db.items()` is one HTTP round trip to the store and one step here.     *)
(* ip_requests is a module global, hence one map per process.              *)
(***************************************************************************)
EXTENDS Integers, Sequences, FiniteSets, TLC

VARIABLES
    clock,        \* datetime.now(timezone.utc), in seconds
    ip_requests,  \* per process: ip -> list of recent call times (line 21)
    db,           \* the Replit store: key -> value
    pc,           \* per process: position of the request it is serving
    req,          \* per process: locals of the request it is serving
    response,     \* per process: HTTP response of the request it is serving
    notes,        \* per process: notify_staff_sync calls of that request
    calls,        \* history: per process and ip, every record_ip call time
    ops,          \* history: per process, store writes of that request
    nreq          \* history: number of requests started so far

vars == <<clock, ip_requests, db, pc, req, response, notes, calls, ops, nreq>>

----------------------------------------------------------------------------
(* Program constants *)

RATE_LIMIT == 5
RATE_PERIOD == 60

(* Bounds of the model *)

MaxTime == 30      \* the clock stops here in Spec
TickStep == 30     \* seconds per clock step
MaxReqs == 2       \* requests started in one behaviour of Spec
MaxTimeRL == 90    \* the clock stops here in SpecRL
MaxReqsRL == 6     \* requests started in one behaviour of SpecRL

Procs == {"p1", "p2"}              \* server processes sharing the store
IPs == {"ip1", "ip2"}              \* request.client.host
Tokens == {"t1", "t2", "t3"}       \* state tokens issued by the bot
Users == {"u1", "u2"}              \* discord ids
Emails == {"e1"}                   \* emails a fetched profile may carry

None == "None"                     \* Python None / absent query parameter

\* rec["user_id"] of the state entry the bot stored for each token
StateUser(t) == IF t = "t3" THEN "u2" ELSE "u1"

\* Names of the pool keys, as the list of pieces between occurrences of the
\* text "key:" in what follows the "key:" prefix of the store key:
\* <<"K1">> is the store key "key:K1", <<"K2", "X">> is "key:K2key:X".
KeyNames == {<<"K1">>, <<"K2", "X">>}

\* What the pool may hold when the server starts: both keys, or none.
Pools == {KeyNames, {}}

\* query parameters a request may carry: one of the two missing, or a code
\* with a state token that the bot issued or did not issue
Params ==
    {[code |-> None, state |-> "t1"], [code |-> "c1", state |-> None]}
    \cup {[code |-> "c1", state |-> s] : s \in Tokens \cup {"bogus"}}

----------------------------------------------------------------------------
(* Store keys and store operations *)

state_key(state) == <<"state", state>>
user_db_key(discord_id) == <<"user", discord_id>>
pool_key(name) == <<"key", name>>

\* k.startswith("key:")
startswith_key(k) == k[1] = "key"

\* k.split("key:")[1]: the piece after the prefix, up to the next "key:"
key_str(k) == k[2][1]

\* `k in db`
db_has(d, k) == k \in DOMAIN d

\* db[k] = v
db_set(d, k, v) == [x \in DOMAIN d \cup {k} |-> IF x = k THEN v ELSE d[x]]

\* del db[k], for a key that is there
db_del(d, k) == [x \in DOMAIN d \ {k} |-> d[x]]

\* Whether db[k] raises KeyError: the store answers 404 for a key it does
\* not hold.
getitem_raises(d, k) == k \notin DOMAIN d

\* Whether del db[k] raises KeyError: the store answers 404 to the delete of
\* a key it does not hold, so of two deletes of one key the second raises.
delitem_raises(d, k) == k \notin DOMAIN d

\* rec[field] = value on a dict read from the store
dict_set(rec, field, value) ==
    [f \in DOMAIN rec \cup {field} |-> IF f = field THEN value ELSE rec[f]]

NoRec == [discord_id |-> None]

----------------------------------------------------------------------------
(* Rate limiter *)

\* record_ip with the limit off by one: the call that reaches it is rejected.
record_ip_off_by_one(lst, now) ==
    LET recent == SelectSeq(lst, LAMBDA t : now - t < RATE_PERIOD)
        new == Append(recent, now)
    IN  [lst |-> new, exceeded |-> Len(new) >= RATE_LIMIT]

\* record_ip that keeps the admitted calls only: a rejected call is not
\* appended.
record_ip_drops_rejected(lst, now) ==
    LET recent == SelectSeq(lst, LAMBDA t : now - t < RATE_PERIOD)
        new == Append(recent, now)
    IN  [lst |-> IF Len(new) > RATE_LIMIT THEN recent ELSE new,
         exceeded |-> Len(new) > RATE_LIMIT]

\* record_ip, lines 25-33: the pruned list with the call appended, and
\* whether the limit is exceeded.
record_ip(lst, now) ==
    LET recent == SelectSeq(lst, LAMBDA t : now - t < RATE_PERIOD)
        new == Append(recent, now)
    IN  [lst |-> new, exceeded |-> Len(new) > RATE_LIMIT]

----------------------------------------------------------------------------
(* Responses and notifications *)

NoResponse == [status |-> 0, detail |-> None]
HTTPException(status, detail) == [status |-> status, detail |-> detail]
RedirectResponse(url) == [status |-> 307, detail |-> url]
\* an exception nothing catches: the framework answers 500
Unhandled == [status |-> 500, detail |-> "Internal Server Error"]

\* notify_staff_sync(title, ...): one more call recorded for the request
notify_staff_sync(log, title) == Append(log, title)

falsy(x) == x \in {None, ""}

NoKey == <<None, <<None>>>>

\* The locals of oauth_callback, and four facts about the request kept for
\* the record: whether record_ip rejected it (limited), whether line 57
\* found its state entry (found), how lines 88-112 ended (exchange), and the
\* id of the profile that line 107 fetched (profile_id), which the code does
\* not read and which is kept up to the listing of line 135.
NoReq == [ip |-> None, code |-> None, state |-> None, discord_id |-> None,
          now |-> -1, email |-> None, rec |-> NoRec, k |-> NoKey,
          limited |-> FALSE, found |-> FALSE, exchange |-> None,
          profile_id |-> None]

----------------------------------------------------------------------------
(* Initial state *)

\* The timestamps left in one ip's list by RATE_LIMIT calls at time 0.
Burst == [i \in 1..RATE_LIMIT |-> 0]

Init ==
    /\ clock = 0
    /\ \E first \in {<<>>, Burst} :
          /\ ip_requests = [p \in Procs |-> [ip \in IPs |-> first]]
          /\ calls = [p \in Procs |-> [ip \in IPs |-> first]]
    /\ \E names \in Pools :
          db = [x \in {state_key(t) : t \in Tokens} \cup {pool_key(n) : n \in names}
                  |-> IF x[1] = "state" THEN [user_id |-> StateUser(x[2])]
                                         ELSE [value |-> ""]]
    /\ pc = [p \in Procs |-> "idle"]
    /\ req = [p \in Procs |-> NoReq]
    /\ response = [p \in Procs |-> NoResponse]
    /\ notes = [p \in Procs |-> <<>>]
    /\ ops = [p \in Procs |-> <<>>]
    /\ nreq = 0

----------------------------------------------------------------------------
(* The clock *)

Tick(limit) ==
    /\ clock + TickStep <= limit
    /\ clock' = clock + TickStep
    /\ UNCHANGED <<ip_requests, db, pc, req, response, notes, calls, ops, nreq>>

----------------------------------------------------------------------------
(* oauth_callback, one action per store operation *)

\* The request ends: its response is produced.
Respond(p, r) ==
    /\ pc' = [pc EXCEPT ![p] = "done"]
    /\ response' = [response EXCEPT ![p] = r]

\* The handler returns or raises: of its locals only the request itself
\* (address, parameters, the id read for the token) is kept.
Forgotten(r) ==
    [r EXCEPT !.now = -1, !.email = None, !.rec = NoRec, !.k = NoKey,
              !.profile_id = None]

Forget(p) == req' = [req EXCEPT ![p] = Forgotten(@)]

\* Lines 37-54: the rate check and the check of the query parameters, of a
\* request with the given address and parameters arriving at process p, which
\* is serving no request: the locals of the request it served before are gone.
Start(p, ip, code, state, cap) ==
    /\ pc[p] \in {"idle", "done"}
    /\ nreq < cap
    /\ nreq' = nreq + 1
    /\ LET r == record_ip(ip_requests[p][ip], clock)
       IN  /\ ip_requests' = [ip_requests EXCEPT ![p][ip] = r.lst]
           /\ calls' = [calls EXCEPT ![p][ip] = Append(@, clock)]
           /\ req' = [req EXCEPT ![p] =
                        [NoReq EXCEPT !.ip = ip, !.code = code, !.state = state,
                                      !.limited = r.exceeded]]
           /\ IF r.exceeded
                 THEN /\ notes' = [notes EXCEPT ![p] =
                                     notify_staff_sync(<<>>, "Rate Limit Exceeded")]
                      /\ Respond(p, HTTPException(429, "Too many requests"))
              ELSE IF falsy(code) \/ falsy(state)
                 THEN /\ notes' = [notes EXCEPT ![p] =
                                     notify_staff_sync(<<>>, "Invalid OAuth State")]
                      /\ Respond(p, HTTPException(400, "Missing code or state"))
              ELSE /\ pc' = [pc EXCEPT ![p] = "check_state"]
                   /\ response' = [response EXCEPT ![p] = NoResponse]
                   /\ notes' = [notes EXCEPT ![p] = <<>>]
    /\ ops' = [ops EXCEPT ![p] = <<>>]
    /\ UNCHANGED <<clock, db>>

\* Line 57 without its notification.
CheckState_silent(p) ==
    /\ pc[p] = "check_state"
    /\ IF ~ db_has(db, state_key(req[p].state))
          THEN /\ Respond(p, HTTPException(400, "Invalid state"))
               /\ UNCHANGED <<req, notes>>
          ELSE /\ pc' = [pc EXCEPT ![p] = "read_state"]
               /\ req' = [req EXCEPT ![p].found = TRUE]
               /\ UNCHANGED <<response, notes>>
    /\ UNCHANGED <<clock, ip_requests, db, calls, ops, nreq>>

\* The handler without the check of line 57.
CheckState_unchecked(p) ==
    /\ pc[p] = "check_state"
    /\ pc' = [pc EXCEPT ![p] = "read_state"]
    /\ req' = [req EXCEPT ![p].found = TRUE]
    /\ UNCHANGED <<clock, ip_requests, db, response, notes, calls, ops, nreq>>

\* Lines 56-63: `state_key not in db`.
CheckState(p) ==
    /\ pc[p] = "check_state"
    /\ IF ~ db_has(db, state_key(req[p].state))
          THEN /\ notes' = [notes EXCEPT ![p] =
                              notify_staff_sync(@, "Invalid OAuth State")]
               /\ Respond(p, HTTPException(400, "Invalid state"))
               /\ UNCHANGED req
          ELSE /\ pc' = [pc EXCEPT ![p] = "read_state"]
               /\ req' = [req EXCEPT ![p].found = TRUE]
               /\ UNCHANGED <<response, notes>>
    /\ UNCHANGED <<clock, ip_requests, db, calls, ops, nreq>>

\* Lines 65-68: rec = db[state_key]; discord_id; now.
ReadState(p) ==
    /\ pc[p] = "read_state"
    /\ IF getitem_raises(db, state_key(req[p].state))
          THEN /\ Respond(p, Unhandled)
               /\ Forget(p)
          ELSE /\ req' = [req EXCEPT
                            ![p].discord_id = db[state_key(req[p].state)].user_id,
                            ![p].now = clock]
               /\ pc' = [pc EXCEPT ![p] = "check_user"]
               /\ UNCHANGED response
    /\ UNCHANGED <<clock, ip_requests, db, notes, calls, ops, nreq>>

\* A re-link stopped at the duplicate notification: an identity that has a
\* record is sent to the site without exchange and without a key.
CheckUser_ends_relink(p) ==
    /\ pc[p] = "check_user"
    /\ IF db_has(db, user_db_key(req[p].discord_id))
          THEN /\ notes' = [notes EXCEPT ![p] =
                              notify_staff_sync(@, "Duplicate OAuth Attempt")]
               /\ Respond(p, RedirectResponse("https://skyspoofer.com"))
               /\ Forget(p)
          ELSE /\ pc' = [pc EXCEPT ![p] = "create_user"]
               /\ UNCHANGED <<notes, req, response>>
    /\ UNCHANGED <<clock, ip_requests, db, calls, ops, nreq>>

\* Lines 71-77: `user_db_key in db`, and the duplicate notification.
CheckUser(p) ==
    /\ pc[p] = "check_user"
    /\ IF db_has(db, user_db_key(req[p].discord_id))
          THEN /\ notes' = [notes EXCEPT ![p] =
                              notify_staff_sync(@, "Duplicate OAuth Attempt")]
               /\ pc' = [pc EXCEPT ![p] = "del_state"]
          ELSE /\ pc' = [pc EXCEPT ![p] = "create_user"]
               /\ UNCHANGED notes
    /\ UNCHANGED <<clock, ip_requests, db, req, response, calls, ops, nreq>>

\* Lines 78-82: the new link record.
CreateUser(p) ==
    /\ pc[p] = "create_user"
    /\ db' = db_set(db, user_db_key(req[p].discord_id),
                    [discord_id |-> req[p].discord_id,
                     email |-> None,
                     first_linked_at |-> req[p].now])
    /\ ops' = [ops EXCEPT ![p] = Append(@, "create_user")]
    /\ pc' = [pc EXCEPT ![p] = "del_state"]
    /\ UNCHANGED <<clock, ip_requests, req, response, notes, calls, nreq>>

\* A delete that waits for the state entry instead of raising when another
\* request has removed it.
DelState_waits(p) ==
    /\ pc[p] = "del_state"
    /\ ~ delitem_raises(db, state_key(req[p].state))
    /\ db' = db_del(db, state_key(req[p].state))
    /\ ops' = [ops EXCEPT ![p] = Append(@, "del_state")]
    /\ pc' = [pc EXCEPT ![p] = "exchange"]
    /\ UNCHANGED <<clock, ip_requests, req, response, notes, calls, nreq>>

\* Line 85: del db[state_key].
DelState(p) ==
    /\ pc[p] = "del_state"
    /\ IF delitem_raises(db, state_key(req[p].state))
          THEN /\ Respond(p, Unhandled)
               /\ Forget(p)
               /\ UNCHANGED <<db, ops>>
          ELSE /\ db' = db_del(db, state_key(req[p].state))
               /\ ops' = [ops EXCEPT ![p] = Append(@, "del_state")]
               /\ pc' = [pc EXCEPT ![p] = "exchange"]
               /\ UNCHANGED <<req, response>>
    /\ UNCHANGED <<clock, ip_requests, notes, calls, nreq>>

\* What the identity provider may answer to lines 88-112: an error to the
\* token request, an error to the profile request, or the profile of the
\* account that authorised, with its id and with or without an email.
ExchangeOutcomes ==
    {[status |-> s, id |-> None, email |-> None] :
        s \in {"token_error", "profile_error"}}
    \cup {[status |-> "profile", id |-> u, email |-> e] :
             u \in Users, e \in Emails \cup {None}}

\* Lines 88-112 reach line 114: a profile came back and it has an email.
Exchanged(outcome) == outcome.status = "profile" /\ ~ falsy(outcome.email)

\* The except block putting the state entry back, so that the same link
\* can be tried again.
Exchange_restores_state(p, outcome) ==
    /\ pc[p] = "exchange"
    /\ IF Exchanged(outcome)
          THEN /\ req' = [req EXCEPT ![p].email = outcome.email,
                                      ![p].profile_id = outcome.id,
                                      ![p].exchange = "ok"]
               /\ pc' = [pc EXCEPT ![p] = "read_user_email"]
               /\ UNCHANGED <<db, response, notes>>
          ELSE /\ notes' = [notes EXCEPT ![p] =
                              notify_staff_sync(@, "Bot Error")]
               /\ Respond(p, HTTPException(500, "OAuth failure"))
               /\ db' = db_set(db, state_key(req[p].state),
                               [user_id |-> req[p].discord_id])
               /\ req' = [req EXCEPT ![p] =
                            Forgotten([@ EXCEPT !.exchange = "failed"])]
    /\ UNCHANGED <<clock, ip_requests, calls, ops, nreq>>

\* Lines 88-112 and 126-132: code -> token -> profile -> email.
Exchange(p, outcome) ==
    /\ pc[p] = "exchange"
    /\ IF Exchanged(outcome)
          THEN /\ req' = [req EXCEPT ![p].email = outcome.email,
                                      ![p].profile_id = outcome.id,
                                      ![p].exchange = "ok"]
               /\ pc' = [pc EXCEPT ![p] = "read_user_email"]
               /\ UNCHANGED <<response, notes>>
          ELSE /\ notes' = [notes EXCEPT ![p] =
                              notify_staff_sync(@, "Bot Error")]
               /\ Respond(p, HTTPException(500, "OAuth failure"))
               /\ req' = [req EXCEPT ![p] =
                            Forgotten([@ EXCEPT !.exchange = "failed"])]
    /\ UNCHANGED <<clock, ip_requests, db, calls, ops, nreq>>

\* Line 115: rec = db[user_db_key], inside the try block.
ReadUserEmail(p) ==
    /\ pc[p] = "read_user_email"
    /\ IF getitem_raises(db, user_db_key(req[p].discord_id))
          THEN /\ notes' = [notes EXCEPT ![p] =
                              notify_staff_sync(@, "Bot Error")]
               /\ Respond(p, HTTPException(500, "OAuth failure"))
               /\ Forget(p)
          ELSE /\ req' = [req EXCEPT ![p].rec = db[user_db_key(req[p].discord_id)]]
               /\ pc' = [pc EXCEPT ![p] = "write_user_email"]
               /\ UNCHANGED <<response, notes>>
    /\ UNCHANGED <<clock, ip_requests, db, calls, ops, nreq>>

\* The email written to the record of the account that authorised, named
\* by the id of the fetched profile, instead of the one the token names.
WriteUserEmail_by_profile(p) ==
    /\ pc[p] = "write_user_email"
    /\ db' = db_set(db, user_db_key(req[p].profile_id),
                    dict_set(req[p].rec, "email", req[p].email))
    /\ ops' = [ops EXCEPT ![p] = Append(@, "set_email")]
    /\ notes' = [notes EXCEPT ![p] = notify_staff_sync(@, "Discord Linked")]
    /\ pc' = [pc EXCEPT ![p] = "scan"]
    /\ UNCHANGED <<clock, ip_requests, req, response, calls, nreq>>

\* Lines 116-124: rec["email"] = email; db[user_db_key] = rec; notification.
WriteUserEmail(p) ==
    /\ pc[p] = "write_user_email"
    /\ db' = db_set(db, user_db_key(req[p].discord_id),
                    dict_set(req[p].rec, "email", req[p].email))
    /\ ops' = [ops EXCEPT ![p] = Append(@, "set_email")]
    /\ notes' = [notes EXCEPT ![p] = notify_staff_sync(@, "Discord Linked")]
    /\ pc' = [pc EXCEPT ![p] = "scan"]
    /\ UNCHANGED <<clock, ip_requests, req, response, calls, nreq>>

\* An empty pool treated as a failure of the request instead of line 211.
Scan_fails_when_empty(p) ==
    /\ pc[p] = "scan"
    /\ LET pool == {k \in DOMAIN db : startswith_key(k)}
       IN  IF pool = {}
              THEN /\ Respond(p, HTTPException(500, "OAuth failure"))
                   /\ Forget(p)
              ELSE /\ \E k \in pool :
                         req' = [req EXCEPT ![p].k = k, ![p].profile_id = None]
                   /\ pc' = [pc EXCEPT ![p] = "del_key"]
                   /\ UNCHANGED response
    /\ UNCHANGED <<clock, ip_requests, db, notes, calls, ops, nreq>>

\* Lines 135-137 and 211: list(db.items()) and the first entry of it whose
\* key starts with "key:". The store fixes the order of the listing, the
\* program does not: any pool key of the listing may come first.
Scan(p) ==
    /\ pc[p] = "scan"
    /\ LET pool == {k \in DOMAIN db : startswith_key(k)}
       IN  IF pool = {}
              THEN /\ Respond(p, RedirectResponse("https://skyspoofer.com"))
                   /\ Forget(p)
              ELSE /\ \E k \in pool :
                         req' = [req EXCEPT ![p].k = k, ![p].profile_id = None]
                   /\ pc' = [pc EXCEPT ![p] = "del_key"]
                   /\ UNCHANGED response
    /\ UNCHANGED <<clock, ip_requests, db, notes, calls, ops, nreq>>

\* The dispense without line 140: the key stays in the pool.
DelKey_keeps_key(p) ==
    /\ pc[p] = "del_key"
    /\ pc' = [pc EXCEPT ![p] = "read_user_key"]
    /\ ops' = [ops EXCEPT ![p] = Append(@, "del_key")]
    /\ UNCHANGED <<clock, ip_requests, db, req, response, notes, calls, nreq>>

\* Line 140: del db[k].
DelKey(p) ==
    /\ pc[p] = "del_key"
    /\ IF delitem_raises(db, req[p].k)
          THEN /\ Respond(p, Unhandled)
               /\ Forget(p)
               /\ UNCHANGED <<db, ops>>
          ELSE /\ db' = db_del(db, req[p].k)
               /\ ops' = [ops EXCEPT ![p] = Append(@, "del_key")]
               /\ pc' = [pc EXCEPT ![p] = "read_user_key"]
               /\ UNCHANGED <<req, response>>
    /\ UNCHANGED <<clock, ip_requests, notes, calls, nreq>>

\* Line 143: rec = db[user_db_key].
ReadUserKey(p) ==
    /\ pc[p] = "read_user_key"
    /\ IF getitem_raises(db, user_db_key(req[p].discord_id))
          THEN /\ Respond(p, Unhandled)
               /\ Forget(p)
          ELSE /\ req' = [req EXCEPT ![p].rec = db[user_db_key(req[p].discord_id)]]
               /\ pc' = [pc EXCEPT ![p] = "write_user_key"]
               /\ UNCHANGED response
    /\ UNCHANGED <<clock, ip_requests, db, notes, calls, ops, nreq>>

\* Lines 144-146: the record annotated with the key and the time.
WriteUserKey(p) ==
    /\ pc[p] = "write_user_key"
    /\ db' = db_set(db, user_db_key(req[p].discord_id),
                    dict_set(dict_set(req[p].rec, "dispensed_key", key_str(req[p].k)),
                             "last_dispensed_at", req[p].now))
    /\ ops' = [ops EXCEPT ![p] = Append(@, "set_key")]
    /\ pc' = [pc EXCEPT ![p] = "deliver"]
    /\ UNCHANGED <<clock, ip_requests, req, response, notes, calls, nreq>>

\* What Discord may do with the direct message of lines 149-193: the message
\* goes out ("sent"); opening the channel raises, by the network, by
\* raise_for_status or by a reply without an id ("open_failed"); the post of
\* the message raises ("send_raised"); or the post of the message is
\* answered with an error status ("send_refused"), which line 186 does not
\* look at.
DeliveryOutcomes == {"sent", "open_failed", "send_raised", "send_refused"}

\* The direct message without the try block of lines 148-200: a delivery
\* that raises ends the request with the framework's 500.
Deliver_unguarded(p, outcome) ==
    /\ pc[p] = "deliver"
    /\ IF outcome \in {"open_failed", "send_raised"}
          THEN /\ Respond(p, Unhandled)
               /\ UNCHANGED notes
          ELSE /\ notes' = [notes EXCEPT ![p] =
                              notify_staff_sync(@, "Key Dispensed")]
               /\ Respond(p, RedirectResponse("https://skyspoofer.com"))
    /\ Forget(p)
    /\ UNCHANGED <<clock, ip_requests, db, calls, ops, nreq>>

\* Lines 149-211: the direct message, the except block of line 195, the
\* notifications, break, and the redirect.
Deliver(p, outcome) ==
    /\ pc[p] = "deliver"
    /\ notes' = [notes EXCEPT ![p] =
                   notify_staff_sync(
                      IF outcome \in {"open_failed", "send_raised"}
                         THEN notify_staff_sync(@, "DM Delivery Failed")
                         ELSE @,
                      "Key Dispensed")]
    /\ Respond(p, RedirectResponse("https://skyspoofer.com"))
    /\ Forget(p)
    /\ UNCHANGED <<clock, ip_requests, db, calls, ops, nreq>>

----------------------------------------------------------------------------
(* Specifications *)

Next ==
    \/ Tick(MaxTime)
    \/ \E p \in Procs, q \in Params :
          Start(p, "ip1", q.code, q.state, MaxReqs)
    \/ \E p \in Procs : CheckState(p)
    \/ \E p \in Procs : ReadState(p)
    \/ \E p \in Procs : CheckUser(p)
    \/ \E p \in Procs : CreateUser(p)
    \/ \E p \in Procs : DelState(p)
    \/ \E p \in Procs, outcome \in ExchangeOutcomes : Exchange(p, outcome)
    \/ \E p \in Procs : ReadUserEmail(p)
    \/ \E p \in Procs : WriteUserEmail(p)
    \/ \E p \in Procs : Scan(p)
    \/ \E p \in Procs : DelKey(p)
    \/ \E p \in Procs : ReadUserKey(p)
    \/ \E p \in Procs : WriteUserKey(p)
    \/ \E p \in Procs, outcome \in DeliveryOutcomes : Deliver(p, outcome)

Spec == Init /\ [][Next]_vars

\* One step of the handler that process p runs for its request.
Handler(p) ==
    \/ CheckState(p) \/ ReadState(p) \/ CheckUser(p) \/ CreateUser(p)
    \/ DelState(p)
    \/ \E outcome \in ExchangeOutcomes : Exchange(p, outcome)
    \/ ReadUserEmail(p) \/ WriteUserEmail(p) \/ Scan(p) \/ DelKey(p)
    \/ ReadUserKey(p) \/ WriteUserKey(p)
    \/ \E outcome \in DeliveryOutcomes : Deliver(p, outcome)

\* The handler is synchronous code: a process that holds a request keeps
\* executing it, and the store and the HTTP calls of lines 89-193 return.
SpecLive == Spec /\ \A p \in Procs : WF_vars(Handler(p))

\* The rate limiter alone: callbacks that carry no code, from every address,
\* over a longer time. They end at line 44 or line 54 and never reach the
\* store, which is taken with its pool full.
NextRL ==
    \/ Tick(MaxTimeRL)
    \/ \E p \in Procs, ip \in IPs : Start(p, ip, None, "t1", MaxReqsRL)

InitRL == Init /\ \E k \in DOMAIN db : startswith_key(k)

SpecRL == InitRL /\ [][NextRL]_vars

----------------------------------------------------------------------------
(* Vocabulary of the properties *)

InSeq(x, s) == \E i \in DOMAIN s : s[i] = x

Pool(d) == {k \in DOMAIN d : startswith_key(k)}

\* Process p takes a step of its request.
Steps(p) == pc'[p] # pc[p] \/ req'[p] # req[p]

\* Positions of account resolution, identity exchange and key dispense.
Proceeding ==
    {"check_user", "create_user", "exchange", "read_user_email",
     "write_user_email", "scan", "del_key", "read_user_key", "write_user_key",
     "deliver"}

\* The request of p carried both parameters and was not rate limited.
WellFormed(p) ==
    ~ req[p].limited /\ ~ falsy(req[p].code) /\ ~ falsy(req[p].state)

Redirect == RedirectResponse("https://skyspoofer.com")

\* No request was served before the ones now held by the processes, and no
\* other process holds a request for the account of p's request: what is in
\* the store for that account comes from p alone.
Alone(p) ==
    /\ nreq = Cardinality({q \in Procs : pc[q] # "idle"})
    /\ \A q \in Procs \ {p} : req[q].discord_id # req[p].discord_id

----------------------------------------------------------------------------
(* C1 .. C10 *)

\* C1: a state token is consumed by at most one request: once a request has
\* deleted state:<token>, no other request bearing the token takes a step of
\* account resolution, identity exchange or key dispense. Every such step is
\* taken while the token is still in the store or by the request that
\* deleted it.
C1_TokenConsumedByOneRequest ==
    [][\A p \in Procs :
          (pc[p] \in Proceeding /\ Steps(p)) =>
             \/ db_has(db, state_key(req[p].state))
             \/ InSeq("del_state", ops[p])]_vars

\* C2: every pool key is claimed by at most one request. A request that
\* deletes a pool key deletes one that is in the pool, the pool loses exactly
\* that entry, a key that left the pool never returns to it, and the key
\* string written to the account is that of the key the request deleted.
C2_KeyClaimedOnce ==
    [][/\ \A p \in Procs :
            (pc[p] = "del_key" /\ pc'[p] = "read_user_key") =>
               /\ req[p].k \in Pool(db)
               /\ Pool(db') = Pool(db) \ {req[p].k}
               /\ Cardinality(Pool(db')) = Cardinality(Pool(db)) - 1
       /\ \A p \in Procs :
            (pc[p] = "write_user_key" /\ Steps(p)) =>
               /\ req[p].k \notin Pool(db')
               /\ db'[user_db_key(req[p].discord_id)].dispensed_key
                     = key_str(req[p].k)
               /\ \A q \in Procs \ {p} : req[q].k # req[p].k
                     \/ pc[q] \notin {"read_user_key", "write_user_key", "deliver"}
       /\ \A k \in Pool(db') : k \in Pool(db)
       /\ Pool(db') # Pool(db) =>
            \E p \in Procs : pc[p] = "del_key" /\ pc'[p] = "read_user_key"]_vars

\* C2 witness: two requests listed the same pool key; one has claimed it and
\* the other one's delete of it has failed.
W_C2 ==
    \E p \in Procs, q \in Procs :
       /\ p # q
       /\ InSeq("del_key", ops[p])
       /\ pc[q] = "done" /\ response[q] = Unhandled
       /\ ops[q] # <<>> /\ ops[q][Len(ops[q])] = "set_email"

\* C3: once an account record has a dispensed_key, no step changes or removes
\* it, and no request removes a pool key for that account.
C3_DispensedKeySetOnce ==
    [][\A u \in Users :
          (/\ db_has(db, user_db_key(u))
           /\ "dispensed_key" \in DOMAIN db[user_db_key(u)]) =>
             /\ db_has(db', user_db_key(u))
             /\ "dispensed_key" \in DOMAIN db'[user_db_key(u)]
             /\ db'[user_db_key(u)].dispensed_key = db[user_db_key(u)].dispensed_key
             /\ \A p \in Procs :
                   (pc[p] = "del_key" /\ Steps(p) /\ req[p].discord_id = u) =>
                      Pool(db') = Pool(db)]_vars

\* C4: first_linked_at of an account record is written once: no step changes
\* it in a record that exists.
C4_FirstLinkedAtWrittenOnce ==
    [][\A u \in Users :
          db_has(db, user_db_key(u)) =>
             /\ db_has(db', user_db_key(u))
             /\ db'[user_db_key(u)].first_linked_at
                   = db[user_db_key(u)].first_linked_at]_vars

\* C5: an admission check of an address is rejected exactly when RATE_LIMIT
\* or more of the earlier checks of that address, admitted and rejected ones
\* alike, lie less than RATE_PERIOD back: the first RATE_LIMIT checks of a
\* window pass, the next is rejected, and so is every later one until at most
\* RATE_LIMIT - 1 recorded calls are left in the trailing window.
C5_RateLimitWindow ==
    [][\A p \in Procs, ip \in IPs :
          calls'[p][ip] # calls[p][ip] =>
             LET earlier == calls[p][ip]
                 inWindow == {i \in DOMAIN earlier :
                                 clock - earlier[i] < RATE_PERIOD}
             IN  (response'[p].status = 429)
                    <=> (Cardinality(inWindow) >= RATE_LIMIT)]_vars

\* C5 witness: more than RATE_LIMIT checks of one address at one time (the
\* last of them rejected), and a later check of the address admitted.
W_C5 ==
    \E p \in Procs, ip \in IPs :
       LET h == calls[p][ip]
       IN  /\ pc[p] = "done" /\ req[p].ip = ip
           /\ response[p].status = 400
           /\ Len(h) > RATE_LIMIT + 1
           /\ Cardinality({i \in DOMAIN h : h[i] = h[1]}) > RATE_LIMIT
           /\ h[Len(h)] >= h[1] + RATE_PERIOD

\* C6: every request ends with the response its inputs decide, in this
\* order: 429 if the rate limiter rejected it, 400 if code or state is missing
\* or the state token was not in the store, 500 if the identity exchange
\* failed, and the redirect to the fixed URL in every other case.
C6_ResponseDecided ==
    \A p \in Procs :
       pc[p] = "done" =>
          response[p] =
             IF req[p].limited
                THEN HTTPException(429, "Too many requests")
             ELSE IF falsy(req[p].code) \/ falsy(req[p].state)
                THEN HTTPException(400, "Missing code or state")
             ELSE IF ~ req[p].found
                THEN HTTPException(400, "Invalid state")
             ELSE IF req[p].exchange = "failed"
                THEN HTTPException(500, "OAuth failure")
             ELSE Redirect

\* C7 as claimed: every finished request has called the notifier exactly once.
C7_ExactlyOneNotification ==
    \A p \in Procs : pc[p] = "done" => Len(notes[p]) = 1

\* The notifier calls a request may have made when it ends with response r.
NotesFor(r) ==
    LET dup == {<<>>, <<"Duplicate OAuth Attempt">>}
        dispense == {<<>>, <<"Key Dispensed">>,
                     <<"DM Delivery Failed", "Key Dispensed">>}
    IN  IF r.status = 429 THEN {<<"Rate Limit Exceeded">>}
        ELSE IF r.status = 400 THEN {<<"Invalid OAuth State">>}
        ELSE IF r = HTTPException(500, "OAuth failure")
           THEN {d \o <<"Bot Error">> : d \in dup}
        ELSE IF r = Redirect
           THEN {d \o <<"Discord Linked">> \o k : d \in dup, k \in dispense}
        ELSE {d \o l : d \in dup, l \in {<<>>, <<"Discord Linked">>}}

\* C7 as amended: a request that ends with 429 or 400 has called the notifier
\* exactly once; one that ends with the 500 of a failed exchange has called it
\* once for the failure, after a call for the duplicate attempt if the account
\* existed; one that ends with the redirect has called it once for the link,
\* after a call for the duplicate attempt if the account existed, and then for
\* a failed delivery and for the dispensed key; one that ends on an uncaught
\* KeyError of the store has made no call for that failure.
C7_NotificationsPerOutcome ==
    \A p \in Procs : pc[p] = "done" => notes[p] \in NotesFor(response[p])

\* C7 witness: a re-link whose key could not be delivered: four calls.
W_C7 ==
    \E p \in Procs :
       /\ pc[p] = "done" /\ response[p] = Redirect
       /\ notes[p] = <<"Duplicate OAuth Attempt", "Discord Linked",
                       "DM Delivery Failed", "Key Dispensed">>

\* C8: of two requests that bore the same valid state token, exactly one
\* deleted the state entry and went on, and the other one ended with 400.
C8_OnePassesOtherGets400 ==
    \A p \in Procs, q \in Procs :
       (/\ p # q
        /\ pc[p] = "done" /\ pc[q] = "done"
        /\ WellFormed(p) /\ WellFormed(q)
        /\ req[p].state \in Tokens /\ req[q].state = req[p].state) =>
          \/ InSeq("del_state", ops[p]) /\ response[q].status = 400
          \/ InSeq("del_state", ops[q]) /\ response[p].status = 400

\* C9: a request that passed the rate check with a code and a state token
\* whose entry is not in the store at line 57 ends there with 400 and has
\* written nothing: that step leaves the store as it is and the request has
\* made no store write before it.
C9_UnknownStateLeavesStore ==
    [][\A p \in Procs :
          (/\ pc[p] = "check_state" /\ Steps(p)
           /\ ~ db_has(db, state_key(req[p].state))) =>
             /\ pc'[p] = "done"
             /\ response'[p].status = 400
             /\ db' = db
             /\ ops'[p] = <<>>]_vars

\* C9 witness: a request turned away at line 63, with a token that was never
\* issued or with one that another request has consumed.
W_C9 ==
    \E p \in Procs :
       /\ pc[p] = "done" /\ WellFormed(p)
       /\ response[p] = HTTPException(400, "Invalid state")
       /\ req[p].state \in Tokens
       /\ ~ db_has(db, state_key(req[p].state))

\* C10: a request whose identity exchange fails ends with 500 and that step
\* leaves the store as it is: the account record is there, the state entry is
\* gone and stays gone, and the only writes of the request are the delete of
\* the state entry and, for a new account, the creation of a record with
\* email None and no dispensed_key (which is the whole record when no other
\* request has run).
C10_ExchangeFailureLeavesStore ==
    [][/\ \A p \in Procs :
            (pc[p] = "exchange" /\ pc'[p] = "done") =>
               /\ response'[p].status = 500
               /\ db' = db
               /\ db_has(db, user_db_key(req[p].discord_id))
               /\ ~ db_has(db, state_key(req[p].state))
               /\ ops'[p] \in {<<"del_state">>, <<"create_user", "del_state">>}
               /\ (nreq = 1 /\ InSeq("create_user", ops[p])) =>
                     db[user_db_key(req[p].discord_id)] =
                        [discord_id |-> req[p].discord_id, email |-> None,
                         first_linked_at |-> req[p].now]
       /\ \A p \in Procs :
            (pc[p] = "create_user" /\ Steps(p)) =>
               /\ db'[user_db_key(req[p].discord_id)].email = None
               /\ "dispensed_key" \notin DOMAIN db'[user_db_key(req[p].discord_id)]
       /\ \A t \in Tokens :
            ~ db_has(db, state_key(t)) => ~ db_has(db', state_key(t))]_vars

\* C10 witness: the first request for an account has failed in the exchange;
\* the record it created has no email and no key, and its token is gone.
W_C10 ==
    \E p \in Procs :
       /\ pc[p] = "done"
       /\ response[p] = HTTPException(500, "OAuth failure")
       /\ InSeq("create_user", ops[p])
       /\ db[user_db_key(req[p].discord_id)].email = None
       /\ "dispensed_key" \notin DOMAIN db[user_db_key(req[p].discord_id)]
       /\ ~ db_has(db, state_key(req[p].state))

\* C11: when the delivery of a dispensed key fails, at the opening of the
\* channel or at the sending of the message, the dispense is not undone (the
\* step leaves the store as it is, the key is out of the pool, and the key
\* string is the dispensed_key of the account of a request that ran alone),
\* the notifier is called for the failed delivery and for the dispensed key,
\* and the response is the redirect.
C11_DeliveryFailureKeepsDispense ==
    [][\A p \in Procs, outcome \in DeliveryOutcomes \ {"sent"} :
          Deliver(p, outcome) =>
             /\ db' = db
             /\ req[p].k \notin Pool(db')
             /\ InSeq("del_key", ops'[p]) /\ InSeq("set_key", ops'[p])
             /\ nreq = 1 =>
                   db'[user_db_key(req[p].discord_id)].dispensed_key
                      = key_str(req[p].k)
             /\ InSeq("DM Delivery Failed", notes'[p])
             /\ InSeq("Key Dispensed", notes'[p])
             /\ response'[p] = Redirect]_vars

\* C12: a first-time callback with a code, a valid state token and a
\* successful exchange that finds no key:* entry in the store ends there with
\* the redirect and without an error notification, leaves the store as it
\* is, and has created the account, deleted the state entry and written the
\* email, and nothing else; when no other request touched that account, the
\* record is the identity, the fetched email and first_linked_at, with no
\* dispensed_key and no last_dispensed_at field.
C12_EmptyPoolLinksWithoutKey ==
    [][\A p \in Procs :
          (/\ pc[p] = "scan" /\ Steps(p) /\ Pool(db) = {}
           /\ InSeq("create_user", ops[p])) =>
             /\ response'[p] = Redirect /\ pc'[p] = "done"
             /\ db' = db
             /\ ops'[p] = <<"create_user", "del_state", "set_email">>
             /\ notes'[p] = <<"Discord Linked">>
             /\ state_key(req[p].state) \notin DOMAIN db'
             /\ Alone(p) =>
                   db'[user_db_key(req[p].discord_id)]
                      = [discord_id |-> req[p].discord_id,
                         email |-> req[p].email,
                         first_linked_at |-> req[p].now]]_vars

\* C12 witness: the only request so far has ended with the redirect on an
\* empty pool, and its account holds the email and no key.
W_C12 ==
    \E p \in Procs :
       /\ pc[p] = "done" /\ response[p] = Redirect /\ nreq = 1
       /\ ops[p] = <<"create_user", "del_state", "set_email">>
       /\ Pool(db) = {}
       /\ db[user_db_key(req[p].discord_id)]
             = [discord_id |-> req[p].discord_id, email |-> "e1",
                first_linked_at |-> 0]

\* C13: a first-time callback with a code, a valid state token and a
\* successful exchange that finds a key in the pool ends with the redirect,
\* its state entry deleted, exactly one key removed from the pool, and, when
\* no other request touched that account, a record made of the identity,
\* first_linked_at, the fetched email, last_dispensed_at, and as
\* dispensed_key that same key: the whole text that follows "key:" in the
\* name of the removed entry.
C13_FirstLinkDispensesThatKey ==
    [][\A p \in Procs :
          (/\ pc[p] = "deliver" /\ Steps(p)
           /\ InSeq("create_user", ops[p])) =>
             /\ response'[p] = Redirect /\ pc'[p] = "done"
             /\ state_key(req[p].state) \notin DOMAIN db'
             /\ ops'[p] = <<"create_user", "del_state", "set_email",
                            "del_key", "set_key">>
             /\ req[p].k \notin Pool(db')
             /\ Alone(p) =>
                   LET rec == db'[user_db_key(req[p].discord_id)]
                   IN  /\ DOMAIN rec = {"discord_id", "email", "first_linked_at",
                                        "dispensed_key", "last_dispensed_at"}
                       /\ rec.discord_id = req[p].discord_id
                       /\ rec.email = req[p].email
                       /\ rec.first_linked_at = req[p].now
                       /\ rec.last_dispensed_at = req[p].now
                       /\ <<rec.dispensed_key>> = req[p].k[2]]_vars

\* C14: every request that a process has started is eventually answered
\* with an HTTP response (429, 400, 500 or the redirect), whatever the other
\* process does in between, the failures of a store read or delete on a
\* key that the other request has just removed included.
C14_EveryRequestResponds ==
    \A p \in Procs :
       (pc[p] \notin {"idle", "done"}) ~>
          (pc[p] = "done" /\ response[p].status \in {429, 400, 500, 307})

\* C14 witness: a request answered with the 500 of a KeyError raised by the
\* delete of a state entry that the other request had deleted, while the
\* other request is still being served.
W_C14 ==
    \E p \in Procs, q \in Procs :
       /\ pc[p] = "done" /\ response[p] = Unhandled
       /\ ops[p] = <<>> /\ req[p].discord_id # None
       /\ pc[q] \notin {"idle", "done"}
       /\ req[q].state = req[p].state /\ InSeq("del_state", ops[q])

\* C15: within one request the state entry is deleted right after it is
\* read: the request has deleted it by the time it checks the account
\* record, creates it, notifies the duplicate attempt, or calls the identity
\* provider.
C15_StateDeletedBeforeProcessing ==
    [][\A p \in Procs :
          (Steps(p) /\ pc[p] \in {"check_user", "create_user", "exchange"}) =>
             InSeq("del_state", ops[p])]_vars

\* C16: for every address, the list of timestamps as record_ip leaves it
\* (pruned, the call appended) when the decision is made never has more
\* than RATE_LIMIT + 1 entries.
C16_ListAtMostLimitPlusOne ==
    \A p \in Procs, ip \in IPs : Len(ip_requests[p][ip]) <= RATE_LIMIT + 1

\* C16 as amended: the list that record_ip leaves at the decision holds the
\* checks of that address made less than RATE_PERIOD back, the current one
\* and the rejected ones included, and nothing else; it has at most
\* RATE_LIMIT entries when the check is admitted and more than RATE_LIMIT,
\* with no bound at RATE_LIMIT + 1, when it is rejected.
C16_ListIsTrailingWindow ==
    [][\A p \in Procs, ip \in IPs :
          calls'[p][ip] # calls[p][ip] =>
             LET h == calls'[p][ip]
                 lst == ip_requests'[p][ip]
                 inWindow == {i \in DOMAIN h : clock - h[i] < RATE_PERIOD}
             IN  /\ Len(lst) = Cardinality(inWindow)
                 /\ \A i \in DOMAIN lst : clock - lst[i] < RATE_PERIOD
                 /\ lst[Len(lst)] = clock
                 /\ IF response'[p].status = 429
                       THEN Len(lst) > RATE_LIMIT
                       ELSE Len(lst) <= RATE_LIMIT]_vars

\* C16 witness: a rejected check that left more than RATE_LIMIT + 1
\* timestamps in the list of its address.
W_C16 ==
    \E p \in Procs :
       /\ pc[p] = "done" /\ response[p].status = 429
       /\ Len(ip_requests[p][req[p].ip]) > RATE_LIMIT + 1

\* The request of p found the record of its identity in the store at line 71.
Relink(p) == InSeq("Duplicate OAuth Attempt", notes[p])

\* C17: a request with a fresh valid token for an identity that has a record
\* notifies the duplicate attempt and leaves the store as it is at account
\* resolution, and then goes through the steps of a first-time link: it
\* deletes the state entry, calls the identity provider, on its success
\* writes the email, takes a key when the listing shows one, removes that
\* key and no other from the pool, writes its string and the time on the
\* record, and ends with the redirect having deleted one key and recorded it.
C17_RelinkDispensesAgain ==
    [][\A p \in Procs : Steps(p) =>
          /\ (pc[p] = "check_user"
                 /\ db_has(db, user_db_key(req[p].discord_id))) =>
                /\ db' = db
                /\ notes'[p] = Append(notes[p], "Duplicate OAuth Attempt")
                /\ pc'[p] = "del_state"
          /\ (Relink(p) /\ pc[p] = "exchange" /\ req'[p].exchange = "ok") =>
                pc'[p] = "read_user_email"
          /\ (Relink(p) /\ pc[p] = "scan" /\ Pool(db) # {}) =>
                pc'[p] = "del_key" /\ req'[p].k \in Pool(db)
          /\ (Relink(p) /\ pc[p] = "del_key" /\ pc'[p] # "done") =>
                Pool(db') = Pool(db) \ {req[p].k} /\ Pool(db') # Pool(db)
          /\ (Relink(p) /\ pc[p] = "write_user_key") =>
                LET rec == db'[user_db_key(req[p].discord_id)]
                IN  /\ rec.dispensed_key = key_str(req[p].k)
                    /\ rec.last_dispensed_at = req[p].now
                    /\ req[p].k \notin Pool(db')
          /\ (Relink(p) /\ pc[p] = "deliver") =>
                /\ ops'[p] = <<"del_state", "set_email", "del_key", "set_key">>
                /\ response'[p] = Redirect]_vars

\* C17 witness: a re-link that ended with the redirect after it took the
\* second key of the pool, the first link of the identity having taken the
\* other one.
W_C17 ==
    \E p \in Procs :
       /\ pc[p] = "done" /\ response[p] = Redirect
       /\ notes[p] = <<"Duplicate OAuth Attempt", "Discord Linked",
                       "Key Dispensed">>
       /\ ops[p] = <<"del_state", "set_email", "del_key", "set_key">>
       /\ Pool(db) = {}
       /\ "dispensed_key" \in DOMAIN db[user_db_key(req[p].discord_id)]

\* C18: every request has called the notifier at least once by the time its
\* response (429, 400, 500 or the redirect) is produced, on every branch and
\* under every interleaving.
C18_NotifiedBeforeResponse ==
    \A p \in Procs : pc[p] = "done" => Len(notes[p]) >= 1

\* The record of identity u is created or modified by the step.
Touched(u) ==
    LET key == user_db_key(u)
    IN  \/ db_has(db', key) # db_has(db, key)
        \/ db_has(db', key) /\ db_has(db, key) /\ db'[key] # db[key]

\* C19: a request creates or modifies only the record of the identity that
\* the state entry it read names: every step that creates or modifies a
\* record user:<id> is a step of a request whose token was issued for that
\* id, the email and the key go to that record whatever id the fetched
\* profile carries, and no record of another identity is touched.
C19_OnlyTokenIdentityTouched ==
    [][/\ \A u \in Users :
             Touched(u) =>
                \E p \in Procs :
                   /\ Steps(p)
                   /\ pc[p] \in {"create_user", "write_user_email",
                                  "write_user_key"}
                   /\ req[p].discord_id = u
                   /\ req[p].state \in Tokens /\ StateUser(req[p].state) = u
       /\ \A p \in Procs :
             (Steps(p) /\ pc[p] \in {"write_user_email", "write_user_key"}) =>
                LET rec == db'[user_db_key(req[p].discord_id)]
                IN  /\ pc[p] = "write_user_email" => rec.email = req[p].email
                    /\ pc[p] = "write_user_key" =>
                          rec.dispensed_key = key_str(req[p].k)]_vars

\* C19 witness: a request whose fetched profile carries the id of another
\* identity than its token has created the record of the token's identity
\* and written the email to it, and the identity of the profile has no
\* record.
W_C19 ==
    \E p \in Procs :
       /\ pc[p] = "scan"
       /\ req[p].profile_id \in Users /\ req[p].profile_id # req[p].discord_id
       /\ ops[p] = <<"create_user", "del_state", "set_email">>
       /\ db[user_db_key(req[p].discord_id)].email = req[p].email
       /\ ~ db_has(db, user_db_key(req[p].profile_id))

\* C20: the pool only shrinks, and only in requests that end with the
\* redirect: no step adds a key:* entry (so a removed key never comes back),
\* every step that changes the pool is the delete of line 140 by one
\* request, a request that ends with 429, 400 or 500 has removed no key and
\* one that has removed a key ends with the redirect, and a rate-limited
\* request leaves the store as it is, the entry of a valid state token it
\* bears included.
C20_PoolOnlyShrinksOnRedirect ==
    [][/\ Pool(db') \subseteq Pool(db)
       /\ Pool(db') # Pool(db) =>
             \E p \in Procs :
                /\ Steps(p) /\ pc[p] = "del_key"
                /\ Pool(db') = Pool(db) \ {req[p].k}
       /\ \A p \in Procs :
             (pc'[p] = "done" /\ Steps(p)) =>
                /\ response'[p].status \in {429, 400, 500} =>
                      ~ InSeq("del_key", ops'[p])
                /\ InSeq("del_key", ops'[p]) => response'[p] = Redirect
                /\ response'[p].status = 429 =>
                      db' = db /\ ops'[p] = <<>>]_vars

\* C20 witness: of two requests, one ended with the 500 of a failed exchange
\* and removed no key, the other ended with the redirect and removed one:
\* one key is left of the two.
W_C20 ==
    \E p \in Procs, q \in Procs :
       /\ pc[p] = "done" /\ response[p] = HTTPException(500, "OAuth failure")
       /\ ~ InSeq("del_key", ops[p])
       /\ pc[q] = "done" /\ response[q] = Redirect
       /\ InSeq("del_key", ops[q])
       /\ Cardinality(Pool(db)) = 1

====
